---- MODULE Spec2Model ----
(***************************************************************************)
(* Claims-processing pipeline: the JSON handling of the two reasoning      *)
(* stages (statements_data_extraction_agent.py, policy_evaluation_agent.py)*)
(* and the sequential orchestrator (workflow_orchestrator.py).             *)
(*                                                                         *)
(* Text is a sequence of lexemes.  A lexeme is one of the punctuation      *)
(* strings of Punct, or any other string, which stands for the quoted JSON *)
(* string literal with that content.                                       *)
(***************************************************************************)
EXTENDS Integers, Sequences, FiniteSets, TLC

\* ------------------------------------------------------------------------
\* Bounds of the model
\* ------------------------------------------------------------------------
MaxPad == 1
MaxFields == 2
MaxRespLen == 3

\* ------------------------------------------------------------------------
\* Python / JSON values.  Every value has the same six fields so that any
\* two values can be compared: kind, atom string s, integer n, text t (a
\* string given lexeme by lexeme), mapping m, list a.
\* ------------------------------------------------------------------------
EmptyMap == [k \in {} |-> 0]

PyNone == [kind |-> "null", s |-> "", n |-> 0, t |-> <<>>, m |-> EmptyMap, a |-> <<>>]

PyStr(x) == [kind |-> "str", s |-> x, n |-> 0, t |-> <<>>, m |-> EmptyMap, a |-> <<>>]

\* a string whose content is the lexeme sequence q
PyText(q) == [kind |-> "str", s |-> "", n |-> 0, t |-> q, m |-> EmptyMap, a |-> <<>>]

PyNum(i) == [kind |-> "num", s |-> "", n |-> i, t |-> <<>>, m |-> EmptyMap, a |-> <<>>]

PyBool(x) == [kind |-> "bool", s |-> x, n |-> 0, t |-> <<>>, m |-> EmptyMap, a |-> <<>>]

PyDict(f) == [kind |-> "obj", s |-> "", n |-> 0, t |-> <<>>, m |-> f, a |-> <<>>]

PyList(q) == [kind |-> "arr", s |-> "", n |-> 0, t |-> <<>>, m |-> EmptyMap, a |-> q]

IsDict(v) == v.kind = "obj"

\* d[k] = v on a dict
Put(f, k, v) == [x \in (DOMAIN f) \cup {k} |-> IF x = k THEN v ELSE f[x]]

\* dict.get(k, default)
Get(d, k, default) == IF k \in DOMAIN d.m THEN d.m[k] ELSE default

\* Python truthiness of a value
Truthy(v) ==
    CASE v.kind = "null" -> FALSE
      [] v.kind = "str" -> v.s # "" \/ v.t # <<>>
      [] v.kind = "num" -> v.n # 0
      [] v.kind = "bool" -> v.s = "true"
      [] v.kind = "obj" -> DOMAIN v.m # {}
      [] v.kind = "arr" -> v.a # <<>>

\* ------------------------------------------------------------------------
\* Lexemes
\* ------------------------------------------------------------------------
\* The markdown fence marker (three backticks), written as one lexeme
Fence == "FENCE"

Punct == {Fence, "{", "}", "[", "]", ",", ":", " ", "w", "0", "1", "null", "true", "false"}

\* str.strip(): drop leading and trailing whitespace
RECURSIVE LStrip(_)
LStrip(t) == IF t # <<>> /\ Head(t) = " " THEN LStrip(Tail(t)) ELSE t

RECURSIVE RStrip(_)
RStrip(t) ==
    IF t # <<>> /\ t[Len(t)] = " " THEN RStrip(SubSeq(t, 1, Len(t) - 1)) ELSE t

Strip(t) == RStrip(LStrip(t))

\* str.startswith(Fence)
StartsWithFence(t) == t # <<>> /\ t[1] = Fence

\* str.find(c) / str.rfind(c): 0-based index, -1 when absent
Find(t, c) ==
    IF \E i \in 1..Len(t) : t[i] = c
    THEN (CHOOSE i \in 1..Len(t) : t[i] = c /\ \A j \in 1..(i - 1) : t[j] # c) - 1
    ELSE -1

RFind(t, c) ==
    IF \E i \in 1..Len(t) : t[i] = c
    THEN (CHOOSE i \in 1..Len(t) : t[i] = c /\ \A j \in (i + 1)..Len(t) : t[j] # c) - 1
    ELSE -1

\* Variant of Slice that leaves out the character at end: text[start : end]
SliceExclusive(t, start, end) == SubSeq(t, start + 1, end)

\* text[start : end + 1] with 0-based start and end
Slice(t, start, end) == SubSeq(t, start + 1, end + 1)

\* Variant of StripFences that cuts out the braces of any reply
StripToBraces(t) ==
    LET start_idx == Find(t, "{")
        end_idx == RFind(t, "}")
    IN IF start_idx # -1 /\ end_idx # -1 THEN Slice(t, start_idx, end_idx) ELSE t

\* "Remove markdown code fences if present": the same four lines in
\* structure_ocr_to_json and evaluate_policy_and_liability
StripFences(t) ==
    IF StartsWithFence(t)
    THEN LET start_idx == Find(t, "{")
             end_idx == RFind(t, "}")
         IN IF start_idx # -1 /\ end_idx # -1 THEN Slice(t, start_idx, end_idx) ELSE t
    ELSE t

\* ------------------------------------------------------------------------
\* json.loads
\* ------------------------------------------------------------------------
RECURSIVE SkipWs(_, _)
SkipWs(t, i) == IF i <= Len(t) /\ t[i] = " " THEN SkipWs(t, i + 1) ELSE i

ParseFail == [ok |-> FALSE, val |-> PyNone, next |-> 0]

ParseOk(v, n) == [ok |-> TRUE, val |-> v, next |-> n]

\* the element of a one-element set; {F(x) : x \in {e}} computes e once
TheOne(S) == CHOOSE x \in S : TRUE

RECURSIVE ParseValue(_, _)
RECURSIVE ParseMembers(_, _, _)
RECURSIVE AfterMember(_, _, _, _)
RECURSIVE ParseElements(_, _, _)
RECURSIVE AfterElement(_, _, _)

ParseValue(t, i) ==
    IF i > Len(t) THEN ParseFail
    ELSE CASE t[i] = "null" -> ParseOk(PyNone, i + 1)
           [] t[i] = "0" -> ParseOk(PyNum(0), i + 1)
           [] t[i] = "1" -> ParseOk(PyNum(1), i + 1)
           [] t[i] \in {"true", "false"} -> ParseOk(PyBool(t[i]), i + 1)
           [] t[i] = "{" ->
                LET j == SkipWs(t, i + 1)
                IN IF j <= Len(t) /\ t[j] = "}"
                   THEN ParseOk(PyDict(EmptyMap), j + 1)
                   ELSE ParseMembers(t, j, EmptyMap)
           [] t[i] = "[" ->
                LET j == SkipWs(t, i + 1)
                IN IF j <= Len(t) /\ t[j] = "]"
                   THEN ParseOk(PyList(<<>>), j + 1)
                   ELSE ParseElements(t, j, <<>>)
           [] t[i] \notin Punct -> ParseOk(PyStr(t[i]), i + 1)
           [] OTHER -> ParseFail

\* the members of an object from the key at i on; acc holds those before
ParseMembers(t, i, acc) ==
    IF i > Len(t) \/ t[i] \in Punct THEN ParseFail
    ELSE LET c == SkipWs(t, i + 1)
         IN IF c > Len(t) \/ t[c] # ":" THEN ParseFail
            ELSE TheOne({AfterMember(t, i, acc, r) : r \in {ParseValue(t, SkipWs(t, c + 1))}})

\* what follows the member with key t[i] and parsed value r
AfterMember(t, i, acc, r) ==
    IF ~r.ok THEN ParseFail
    ELSE LET k == SkipWs(t, r.next)
         IN IF k > Len(t) THEN ParseFail
            ELSE IF t[k] = "}" THEN ParseOk(PyDict(Put(acc, t[i], r.val)), k + 1)
            ELSE IF t[k] = ","
                 THEN ParseMembers(t, SkipWs(t, k + 1), Put(acc, t[i], r.val))
            ELSE ParseFail

\* the elements of a list from position i on; acc holds those before
ParseElements(t, i, acc) ==
    TheOne({AfterElement(t, acc, r) : r \in {ParseValue(t, i)}})

\* what follows the element with parsed value r
AfterElement(t, acc, r) ==
    IF ~r.ok THEN ParseFail
    ELSE LET k == SkipWs(t, r.next)
         IN IF k > Len(t) THEN ParseFail
            ELSE IF t[k] = "]" THEN ParseOk(PyList(Append(acc, r.val)), k + 1)
            ELSE IF t[k] = ","
                 THEN ParseElements(t, SkipWs(t, k + 1), Append(acc, r.val))
            ELSE ParseFail

\* json.loads(text): ok = FALSE stands for json.JSONDecodeError
json_loads(t) ==
    TheOne({IF r.ok /\ SkipWs(t, r.next) > Len(t) THEN r ELSE ParseFail :
               r \in {ParseValue(t, SkipWs(t, 1))}})

\* ------------------------------------------------------------------------
\* Configuration and small helpers shared by the stages
\* ------------------------------------------------------------------------
\* os.environ.get("MODEL_DEPLOYMENT_NAME", "gpt-4o-mini")
model_deployment_name == PyStr("gpt-4o-mini")

\* datetime.now().isoformat() at logical time c
Stamp(c) == PyStr(<<"T1", "T2", "T3", "T4">>[c])

\* x or "unknown"
OrUnknown(x) == IF Truthy(x) THEN x ELSE PyStr("unknown")

\* len(v): ok = FALSE stands for TypeError
py_len(v) ==
    CASE v.kind = "str" ->
            [ok |-> TRUE,
             val |-> IF v.t # <<>> THEN Len(v.t)
                     ELSE IF v.s = "" THEN 0
                     ELSE IF v.s = "claim text" THEN 10 ELSE 1]
      [] v.kind = "arr" -> [ok |-> TRUE, val |-> Len(v.a)]
      [] v.kind = "obj" -> [ok |-> TRUE, val |-> Cardinality(DOMAIN v.m)]
      [] OTHER -> [ok |-> FALSE, val |-> 0]

\* dict.setdefault(k, v)
SetDefault(f, k, v) == IF k \in DOMAIN f THEN f ELSE Put(f, k, v)

\* A call of the reasoning collaborator either raises or answers with text
Raises(msg) == [raises |-> TRUE, exc |-> msg, text |-> <<>>]

Answers(text) == [raises |-> FALSE, exc |-> "", text |-> text]

\* ------------------------------------------------------------------------
\* statements_data_extraction_agent.py
\* ------------------------------------------------------------------------
\* Variant of JsonFallbackRecord whose metadata carries no timestamp
JsonFallbackNoTimestamp(response_text, source_file, now) ==
    PyDict(("error" :> PyStr("JSON parsing failed"))
        @@ ("error_details" :> PyStr("JSONDecodeError"))
        @@ ("raw_response" :>
               (IF response_text # <<>> THEN PyText(response_text)
                ELSE PyStr("No response")))
        @@ ("metadata" :>
               PyDict(("source_file" :> OrUnknown(source_file))
                   @@ ("agent_model" :> model_deployment_name))))

\* except json.JSONDecodeError: the fallback record
JsonFallbackRecord(response_text, source_file, now) ==
    PyDict(("error" :> PyStr("JSON parsing failed"))
        @@ ("error_details" :> PyStr("JSONDecodeError"))
        @@ ("raw_response" :>
               (IF response_text # <<>> THEN PyText(response_text)
                ELSE PyStr("No response")))
        @@ ("metadata" :>
               PyDict(("source_file" :> OrUnknown(source_file))
                   @@ ("processing_timestamp" :> now)
                   @@ ("agent_model" :> model_deployment_name))))

\* except Exception: the error record
ProcessingFailedRecord(exc, source_file, now) ==
    PyDict(("error" :> PyStr("Processing failed"))
        @@ ("error_details" :> PyStr(exc))
        @@ ("metadata" :>
               PyDict(("source_file" :> OrUnknown(source_file))
                   @@ ("processing_timestamp" :> now))))

\* The try block of structure_ocr_to_json with the collaborator's behaviour
\* reply: exc is "" when the block reaches its return statement, else the
\* exception it raised; response_text is the variable's value at that time
StructureTry(ocr_text, reply) ==
    IF reply.raises
    THEN [exc |-> reply.exc, val |-> PyNone, response_text |-> <<>>]
    ELSE LET response_text == StripFences(Strip(reply.text))
             parsed == json_loads(response_text)
         IN IF ~parsed.ok
            THEN [exc |-> "JSONDecodeError", val |-> PyNone, response_text |-> response_text]
            ELSE IF ~IsDict(parsed.val) \/ ~py_len(ocr_text).ok
            THEN [exc |-> "TypeError", val |-> PyNone, response_text |-> response_text]
            ELSE [exc |-> "", val |-> parsed.val, response_text |-> response_text]

\* structured_data["metadata"] = {...}
WithBuilderMetadata(structured, ocr_text, source_file, now) ==
    PyDict(Put(structured.m, "metadata",
        PyDict(("source_file" :> OrUnknown(source_file))
            @@ ("processing_timestamp" :> now)
            @@ ("agent_model" :> model_deployment_name)
            @@ ("original_text_length" :> PyNum(py_len(ocr_text).val)))))

\* structure_ocr_to_json(ocr_text, source_file): the try block and its two
\* handlers, except json.JSONDecodeError and except Exception
structure_ocr_to_json(ocr_text, source_file, reply, now) ==
    LET body == StructureTry(ocr_text, reply)
        Returned(v) == [raised |-> FALSE, exc |-> "", val |-> v]
    IN IF body.exc = ""
       THEN Returned(WithBuilderMetadata(body.val, ocr_text, source_file, now))
       ELSE IF body.exc = "JSONDecodeError"
       THEN Returned(JsonFallbackRecord(body.response_text, source_file, now))
       ELSE Returned(ProcessingFailedRecord(body.exc, source_file, now))

\* process_ocr_result(ocr_result_json): raised = TRUE when an exception
\* leaves the function; called tells whether structure_ocr_to_json ran
process_ocr_result(ocr_result_json, reply, now) ==
    LET parsed == json_loads(ocr_result_json)
        ocr_data == parsed.val
        Returns(v, c) == [raised |-> FALSE, exc |-> "", val |-> v, called |-> c]
    IN IF ~parsed.ok
       THEN Returns(PyDict(("error" :> PyStr("Invalid OCR result JSON"))
                        @@ ("error_details" :> PyStr("JSONDecodeError"))
                        @@ ("metadata" :> PyDict("processing_timestamp" :> now))),
                    FALSE)
       ELSE IF ~IsDict(ocr_data)
       THEN [raised |-> TRUE, exc |-> "AttributeError", val |-> PyNone, called |-> FALSE]
       ELSE IF Get(ocr_data, "status", PyNone) # PyStr("success")
       THEN Returns(PyDict(("error" :> PyStr("OCR processing failed"))
                        @@ ("ocr_error" :> Get(ocr_data, "error", PyStr("Unknown error")))
                        @@ ("metadata" :>
                               PyDict(("source_file" :> Get(ocr_data, "file_path", PyStr("unknown")))
                                   @@ ("processing_timestamp" :> now)))),
                    FALSE)
       ELSE LET ocr_text == Get(ocr_data, "text", PyStr(""))
                source_file == Get(ocr_data, "file_path", PyNone)
            IN IF ~Truthy(ocr_text)
               THEN Returns(PyDict(("error" :> PyStr("No text extracted from OCR"))
                                @@ ("metadata" :>
                                       PyDict(("source_file" :> OrUnknown(source_file))
                                           @@ ("processing_timestamp" :> now)))),
                            FALSE)
               ELSE LET r == structure_ocr_to_json(ocr_text, source_file, reply, now)
                    IN [raised |-> r.raised, exc |-> r.exc, val |-> r.val, called |-> TRUE]

\* ------------------------------------------------------------------------
\* policy_evaluation_agent.py
\* ------------------------------------------------------------------------
\* except json.JSONDecodeError: the fallback policy_evaluation object
FallbackPolicyEval(response_text) ==
    PyDict(("matched_policy" :>
               PyDict(("id" :> PyNone)
                   @@ ("title" :> PyNone)
                   @@ ("score" :> PyNum(0))
                   @@ ("summary" :> PyStr("Policy evaluation agent failed to return valid JSON."))
                   @@ ("raw_document_reference" :> PyNone)))
        @@ ("coverage_assessment" :>
               PyDict(("coverage_applicability" :> PyStr("unclear"))
                   @@ ("estimated_company_liability_amount" :> PyNum(0))
                   @@ ("deductible_applicable" :> PyBool("false"))
                   @@ ("deductible_amount" :> PyNum(0))
                   @@ ("limits_may_be_exceeded" :> PyBool("false"))
                   @@ ("relevant_policy_sections" :> PyStr("No details; parsing error."))))
        @@ ("liability_assessment" :>
               PyDict(("at_fault_party" :> PyStr("unclear"))
                   @@ ("estimated_fault_split" :>
                          PyDict(("policyholder_percent" :> PyNum(0))
                              @@ ("third_party_percent" :> PyNum(0))))
                   @@ ("key_factors" :> PyStr("Could not parse LLM response."))))
        @@ ("claim_validity" :>
               PyDict(("is_claim_valid" :> PyNone)
                   @@ ("primary_reasons" :> PyStr("LLM response could not be parsed."))
                   @@ ("confidence" :> PyStr("low"))))
        @@ ("notes" :> PyStr("This object was generated by a fallback handler after JSON parsing failed."))
        @@ ("_raw_response" :> PyText(response_text)))

\* f"{ai_search_index_asset_name}/versions/{ai_search_index_version}"
IndexAssetId == PyStr("policies/versions/1")

\* ensure_ai_search_index_asset(project_client) run alone: indexes.get
\* finds the asset when exists, else create_or_update creates it; fails
\* stands for a missing connection id or an error of the service
ensure_ai_search_index_asset(exists, fails) ==
    IF fails THEN [raised |-> TRUE, asset_id |-> PyNone, exists |-> exists, created |-> FALSE]
    ELSE [raised |-> FALSE, asset_id |-> IndexAssetId, exists |-> TRUE, created |-> ~exists]

\* Where a call of evaluate_policy_and_liability can raise: the missing
\* endpoint, the collaborator calls made before the response is parsed, and
\* leaving the "with project_client" block
EarlyRaisePoints == {"endpoint", "ensure", "create_version", "responses", "output_text"}

RaisePoints == EarlyRaisePoints \cup {"close", "none"}

\* evaluate_policy_and_liability(claim_data).  env gives the behaviour of
\* the collaborators: raise_at, the response text and the agent version;
\* exists tells whether the index asset exists.  claim_after is the caller's record after the call:
\* enriched = dict(claim_data) is a shallow copy, so a non-empty metadata
\* mapping is the caller's own object and is written in place.
\* enriched = dict(claim_data); enriched["policy_evaluation"] = policy_eval
AttachEvaluationAlone(claim_data, policy_eval) ==
    "policy_evaluation" :> policy_eval

AttachEvaluation(claim_data, policy_eval) ==
    Put(claim_data.m, "policy_evaluation", policy_eval)

evaluate_policy_and_liability(claim_data, env, now, exists) ==
    LET ensured == ensure_ai_search_index_asset(exists, env.raise_at = "ensure")
        store == IF env.raise_at = "endpoint" THEN exists ELSE ensured.exists
        Raise(exc, after) ==
            [raised |-> TRUE, exc |-> exc, val |-> PyNone, claim_after |-> after,
             index_exists |-> store]
    IN IF env.raise_at \in EarlyRaisePoints THEN Raise(env.raise_at, claim_data)
       ELSE LET response_text == StripFences(Strip(env.text))
                parsed == json_loads(response_text)
                policy_eval == IF parsed.ok THEN parsed.val
                               ELSE FallbackPolicyEval(response_text)
                found == Get(claim_data, "metadata", PyDict(EmptyMap))
                shared == Truthy(found)
                metadata == IF shared THEN found ELSE PyDict(EmptyMap)
            IN IF ~IsDict(metadata) THEN Raise("AttributeError", claim_data)
               ELSE LET m1 == SetDefault(metadata.m, "processing_timestamp", now)
                        m2 == SetDefault(m1, "agent_model", model_deployment_name)
                        m3 == Put(m2, "policy_evaluation_agent",
                                  PyDict(("name" :> PyStr("PolicyEvaluationAgent"))
                                      @@ ("version" :> env.version)
                                      @@ ("ai_search_index_asset_id" :> ensured.asset_id)))
                        enriched == PyDict(Put(AttachEvaluation(claim_data, policy_eval),
                                               "metadata", PyDict(m3)))
                        after == IF shared
                                 THEN PyDict(Put(claim_data.m, "metadata", PyDict(m3)))
                                 ELSE claim_data
                    IN IF env.raise_at = "close" THEN Raise("close", after)
                       ELSE [raised |-> FALSE, exc |-> "", val |-> enriched,
                             claim_after |-> after, index_exists |-> store]

\* ------------------------------------------------------------------------
\* Inputs: what the collaborators can answer
\* ------------------------------------------------------------------------
\* One valid serialisation of a JSON value (members in some order, a space
\* after each colon)
RECURSIVE EncodeValue(_)
RECURSIVE EncodeMembers(_, _)
RECURSIVE EncodeElements(_)

EncodeValue(v) ==
    CASE v.kind = "null" -> <<"null">>
      [] v.kind = "num" -> IF v.n = 0 THEN <<"0">> ELSE <<"1">>
      [] v.kind = "bool" -> <<v.s>>
      [] v.kind = "str" -> <<v.s>>
      [] v.kind = "arr" -> <<"[">> \o EncodeElements(v.a) \o <<"]">>
      [] v.kind = "obj" -> <<"{">> \o EncodeMembers(v.m, DOMAIN v.m) \o <<"}">>

EncodeMembers(f, keys) ==
    IF keys = {} THEN <<>>
    ELSE LET k == CHOOSE x \in keys : TRUE
             rest == keys \ {k}
         IN <<k, ":", " ">> \o EncodeValue(f[k])
               \o (IF rest = {} THEN <<>> ELSE <<",">> \o EncodeMembers(f, rest))

EncodeElements(q) ==
    IF q = <<>> THEN <<>>
    ELSE EncodeValue(Head(q))
            \o (IF Tail(q) = <<>> THEN <<>> ELSE <<",">> \o EncodeElements(Tail(q)))

\* all sequences over S of length at most n
SeqsUpTo(S, n) == UNION {[1..k -> S] : k \in 0..n}

\* Objects the reasoning collaborator may produce for the claim schema
ObjKeys == {"document_type", "confidence", "error", "metadata"}

FieldValues ==
    {PyStr("statement_front"), PyNone, PyList(<<>>), PyDict("name" :> PyStr("Ann"))}

\* an evaluation whose fault split does not sum to 100
FaultSplitNot100 ==
    PyDict("liability_assessment" :> PyDict("estimated_fault_split" :> PyDict(
              ("policyholder_percent" :> PyNum(1)) @@ ("third_party_percent" :> PyNum(1)))))

LLMObjects ==
    {PyDict(f) : f \in UNION {[K -> FieldValues] :
                      K \in {T \in SUBSET ObjKeys : Cardinality(T) <= MaxFields}}}
        \cup {FaultSplitNot100}

\* whitespace and prose around a fenced block
PadLexemes == {" ", "w", "}"}

Pads == SeqsUpTo(PadLexemes, MaxPad)

\* The shapes of a reply: a JSON value v inside a markdown fence (with or
\* without a language tag), the bare value between two pads, or any short
\* text
FencedShapes ==
    {[form |-> "fenced", v |-> v, lead |-> lead, tag |-> tag, trail |-> trail, text |-> <<>>] :
        v \in LLMObjects, lead \in Pads, tag \in {<<>>, <<"w">>}, trail \in Pads}

BareShapes ==
    {[form |-> "bare", v |-> v, lead |-> lead, tag |-> <<>>, trail |-> trail, text |-> <<>>] :
        v \in LLMObjects, lead \in Pads, trail \in Pads}

Lexemes == {Fence, "{", "}", "[", "]", ",", ":", " ", "w", "1", "null", "document_type"}

ShortShapes ==
    {[form |-> "short", v |-> PyNone, lead |-> <<>>, tag |-> <<>>, trail |-> <<>>, text |-> x] :
        x \in SeqsUpTo(Lexemes, MaxRespLen)}

Fenced(v, lead, tag, trail) ==
    lead \o <<Fence>> \o tag \o <<" ">> \o EncodeValue(v) \o <<" ", Fence>> \o trail

\* the text of a reply of shape sh
TextOf(sh) ==
    CASE sh.form = "fenced" -> Fenced(sh.v, sh.lead, sh.tag, sh.trail)
      [] sh.form = "bare" -> sh.lead \o EncodeValue(sh.v) \o sh.trail
      [] OTHER -> sh.text

NoShape == [form |-> "short", v |-> PyNone, lead |-> <<>>, tag |-> <<>>, trail |-> <<>>, text |-> <<>>]

\* What extract_text_with_ocr can hand to the orchestrator: a JSON text
\* (an object with status / text / error, or something else) or an exception
OcrObjects ==
    {PyDict(("status" :> PyStr("success")) @@ ("text" :> PyStr("claim text"))
               @@ ("file_path" :> PyStr("crash1_front.jpeg"))),
     PyDict(("status" :> PyStr("success")) @@ ("text" :> PyStr(""))),
     PyDict(("status" :> PyStr("success")) @@ ("text" :> PyNone)),
     PyDict(("status" :> PyStr("error")) @@ ("error" :> PyStr("vision service unavailable"))),
     PyDict(("status" :> PyStr("failed")) @@ ("error" :> PyStr("timeout"))),
     PyDict("text" :> PyStr("claim text"))}

OcrOutcomes ==
    {Answers(EncodeValue(o)) : o \in OcrObjects}
        \cup {Answers(<<"w">>), Answers(<<"[", "]">>), Raises("ConnectionError")}

\* Replies of the reasoning collaborator used in whole runs of the workflow
SampleObject == PyDict(("document_type" :> PyStr("statement_front")) @@ ("confidence" :> PyStr("high")))

WorkflowTexts ==
    {Fenced(SampleObject, <<>>, <<"w">>, <<>>),
     EncodeValue(SampleObject),
     <<"w", " ">> \o EncodeValue(SampleObject),
     <<"{", "document_type", ":">>,
     <<"[", "1", "]">>,
     <<>>}

WorkflowReplies == {Answers(x) : x \in WorkflowTexts} \cup {Raises("ConnectionError")}

\* Behaviours of the collaborators of the evaluation stage
EvalEnvs(points, texts) ==
    {[raise_at |-> p, text |-> x, version |-> PyStr("1")] : p \in points, x \in texts}

\* Records handed to the evaluation stage on its own
StageClaims ==
    LET base == ("document_type" :> PyStr("statement_front"))
    IN {PyDict(base),
        PyDict(base @@ ("metadata" :> PyNone)),
        PyDict(base @@ ("metadata" :> PyStr("n/a"))),
        PyDict(base @@ ("metadata" :> PyDict(EmptyMap))),
        PyDict(base @@ ("metadata" :> PyDict("source_file" :> PyStr("crash1_front.jpeg")))),
        PyDict(base @@ ("error" :> PyStr("JSON parsing failed"))
                    @@ ("metadata" :> PyDict("processing_timestamp" :> Stamp(1)))),
        \* a record that an earlier run of the evaluation stage enriched
        PyDict(base @@ ("policy_evaluation" :> PyDict("notes" :> PyStr("earlier run")))
                    @@ ("metadata" :> PyDict(
                           ("agent_model" :> PyStr("gpt-4o"))
                        @@ ("policy_evaluation_agent" :> PyDict(
                               ("name" :> PyStr("PolicyEvaluationAgent"))
                            @@ ("version" :> PyStr("0"))
                            @@ ("ai_search_index_asset_id" :> IndexAssetId))))))}

\* ------------------------------------------------------------------------
\* State
\* ------------------------------------------------------------------------
VARIABLES
    pc,              \* position of process_claim_workflow
    ocr_result_json, \* text returned by extract_text_with_ocr
    ocr_text,        \* ocr_result.get("text", "")
    built,           \* the record as process_ocr_result returned it
    handed,          \* the record as it stood at the end of step 2
    structured_data, \* the orchestrator's record object, as it is now
    result,          \* the value process_claim_workflow returned
    exit,            \* which way process_claim_workflow was left
    calls,           \* the stage functions called so far, in order
    struct_reply,    \* behaviour of the reasoning collaborator in step 2
    clock,           \* logical time of datetime.now()
    index_exists,    \* whether the index asset exists in the project
    stage,           \* position of a stage function run on its own
    shape,           \* how the reply to that stage was put together
    response,        \* reply of the reasoning collaborator to that stage
    claim_data,      \* record passed to the evaluation stage
    env,             \* behaviour of the evaluation stage's collaborators
    ret              \* what the stage function did: raised, val, claim_after

VARIABLES
    azure_ai_connection_id, \* whether AZURE_AI_CONNECTION_ID is set
    callers,         \* concurrent calls of ensure_ai_search_index_asset
    indexes          \* the index assets registered in the project

ensureVars == <<azure_ai_connection_id, callers, indexes>>

VARIABLES
    blob_list,       \* the names list_blobs returned for the container
    grouped_claims,  \* what group_claims_by_number returned
    gpt4_results,    \* results of process_statements_with_gpt4, by claim
    ocr_calls,       \* the calls of ocr_using_gpt4 made so far
    saved,           \* what was written to gpt4_statement_results.json
    batch            \* position of process_statements_with_gpt4

batchVars == <<blob_list, grouped_claims, gpt4_results, ocr_calls, saved, batch>>

VARIABLES
    cli,             \* command line, files and environment of a CLI run
    proc             \* the process of that run: exit status, file written

cliVars == <<cli, proc>>

\* the variables of the other programs of the repository
otherVars == <<ensureVars, batchVars, cliVars>>

vars == <<pc, ocr_result_json, ocr_text, built, handed, structured_data, result, exit,
          calls, struct_reply, clock, index_exists, stage, shape, response, claim_data,
          env, ret, otherVars>>

workflowVars == <<pc, ocr_result_json, ocr_text, built, handed, structured_data, result,
                  exit, calls, struct_reply, clock>>

stageVars == <<stage, shape, response, claim_data, env, ret>>

\* no call of ensure_ai_search_index_asset is under way
EnsureIdle ==
    /\ azure_ai_connection_id = TRUE
    /\ callers = <<>>
    /\ indexes = {}

NoClaims == [order |-> <<>>, m |-> EmptyMap]

\* process_statements_with_gpt4 is not running
BatchIdle ==
    /\ blob_list = <<>>
    /\ grouped_claims = NoClaims
    /\ gpt4_results = EmptyMap
    /\ ocr_calls = <<>>
    /\ saved = PyNone
    /\ batch = [pc |-> "off", next |-> 1, exc |-> ""]

NoCli == [has_arg |-> FALSE, file_exists |-> FALSE, configured |-> FALSE,
          content |-> <<>>, reply |-> Answers(<<>>), ocr |-> Answers(<<>>)]

NoProc == [state |-> "off", program |-> "", status |-> 0, output_file |-> "", output |-> PyNone]

\* no CLI is running
CliIdle ==
    /\ cli = NoCli
    /\ proc = NoProc

OthersIdle == EnsureIdle /\ BatchIdle /\ CliIdle

image_path == PyStr("crash1_front.jpeg")

NoEnv == [raise_at |-> "none", text |-> <<>>, version |-> PyStr("1")]

NoRet == [raised |-> FALSE, exc |-> "", val |-> PyNone, claim_after |-> PyNone]

\* neither the workflow nor a stage function is running
PipelineIdle ==
    /\ pc = "off"
    /\ ocr_result_json = <<>>
    /\ ocr_text = PyNone
    /\ built = PyNone
    /\ handed = PyNone
    /\ structured_data = PyNone
    /\ result = PyNone
    /\ exit = "none"
    /\ calls = <<>>
    /\ struct_reply = Answers(<<>>)
    /\ clock = 1
    /\ index_exists = TRUE
    /\ stage = "idle"
    /\ shape = NoShape
    /\ response = <<>>
    /\ claim_data = PyNone
    /\ env = NoEnv
    /\ ret = NoRet

\* ------------------------------------------------------------------------
\* workflow_orchestrator.py: process_claim_workflow, one action per step
\* ------------------------------------------------------------------------
Init ==
    /\ OthersIdle
    /\ pc = "start"
    /\ ocr_result_json = <<>>
    /\ ocr_text = PyNone
    /\ built = PyNone
    /\ handed = PyNone
    /\ structured_data = PyNone
    /\ result = PyNone
    /\ exit = "none"
    /\ calls = <<>>
    /\ struct_reply = Answers(<<>>)
    /\ clock = 1
    /\ index_exists \in BOOLEAN
    /\ stage = "idle"
    /\ shape = NoShape
    /\ response = <<>>
    /\ claim_data = PyNone
    /\ env = NoEnv
    /\ ret = NoRet

\* an exception sends process_claim_workflow back to its first step
PropagateRetries(exc) ==
    /\ pc' = "start"
    /\ exit' = "exception"
    /\ result' = PyStr(exc)

\* an exception leaves process_claim_workflow
Propagate(exc) ==
    /\ pc' = "done"
    /\ exit' = "exception"
    /\ result' = PyStr(exc)

\* a return statement of process_claim_workflow
Return(way, v) ==
    /\ pc' = "done"
    /\ exit' = way
    /\ result' = v

\* Step 1: extract_text_with_ocr, json.loads, the status check, len(ocr_text)
Extract(outcome) ==
    /\ pc = "start"
    /\ calls' = Append(calls, "extract_text_with_ocr")
    /\ clock' = clock + 1
    /\ ocr_result_json' = outcome.text
    /\ \E parsed \in {json_loads(outcome.text)} :
       LET ocr_result == parsed.val
           text == Get(ocr_result, "text", PyStr(""))
       IN IF outcome.raises THEN Propagate(outcome.exc) /\ UNCHANGED ocr_text
          ELSE IF ~parsed.ok THEN Propagate("JSONDecodeError") /\ UNCHANGED ocr_text
          ELSE IF ~IsDict(ocr_result) THEN Propagate("AttributeError") /\ UNCHANGED ocr_text
          ELSE IF Get(ocr_result, "status", PyNone) = PyStr("error")
          THEN /\ Return("ocr_failed",
                         PyDict(("error" :> PyStr("OCR processing failed"))
                             @@ ("details" :> Get(ocr_result, "error", PyNone))
                             @@ ("image_path" :> image_path)))
               /\ UNCHANGED ocr_text
          ELSE IF ~py_len(text).ok THEN Propagate("TypeError") /\ ocr_text' = text
          ELSE /\ pc' = "extracted"
               /\ ocr_text' = text
               /\ UNCHANGED <<result, exit>>
    /\ UNCHANGED <<built, handed, structured_data, struct_reply, index_exists>>
    /\ UNCHANGED <<stageVars, otherVars>>

\* Variant of Augment that keeps only the metadata of the record
AugmentReplaces(record) ==
    LET found == Get(record, "metadata", PyDict(EmptyMap))
        metadata == IF IsDict(found) THEN found.m ELSE EmptyMap
    IN PyDict("metadata" :>
           PyDict(Put(Put(Put(metadata, "source_image", image_path),
                          "ocr_characters", PyNum(py_len(ocr_text).val)),
                      "workflow", PyStr("multi-agent"))))

\* metadata.update({...}) of step 2
Augment(record) ==
    LET found == Get(record, "metadata", PyDict(EmptyMap))
        metadata == IF IsDict(found) THEN found.m ELSE EmptyMap
    IN PyDict(Put(record.m, "metadata",
           PyDict(Put(Put(Put(metadata, "source_image", image_path),
                          "ocr_characters", PyNum(py_len(ocr_text).val)),
                      "workflow", PyStr("multi-agent")))))

\* Step 2: process_ocr_result and the metadata augmentation
Structure(reply) ==
    /\ pc = "extracted"
    /\ clock' = clock + 1
    /\ struct_reply' = reply
    /\ \E r \in {process_ocr_result(ocr_result_json, reply, Stamp(clock))} :
          /\ calls' = calls \o <<"process_ocr_result">>
                         \o (IF r.called THEN <<"structure_ocr_to_json">> ELSE <<>>)
          /\ IF r.raised
             THEN Propagate(r.exc) /\ UNCHANGED <<built, handed, structured_data>>
             ELSE /\ built' = r.val
                  /\ IF ~IsDict(r.val)
                     THEN /\ Return("invalid_structured",
                                    PyDict(("error" :> PyStr("Invalid result from statements data extraction agent"))
                                        @@ ("details" :> r.val)))
                          /\ UNCHANGED <<handed, structured_data>>
                     ELSE /\ structured_data' = Augment(r.val)
                          /\ handed' = Augment(r.val)
                          /\ pc' = "structured"
                          /\ UNCHANGED <<result, exit>>
    /\ UNCHANGED <<ocr_result_json, ocr_text, index_exists>>
    /\ UNCHANGED <<stageVars, otherVars>>

\* Step 3: evaluate_policy_and_liability inside try / except Exception
Evaluate(e) ==
    /\ pc = "structured"
    /\ clock' = clock + 1
    /\ calls' = Append(calls, "evaluate_policy_and_liability")
    /\ \E r \in {evaluate_policy_and_liability(structured_data, e, Stamp(clock), index_exists)} :
          /\ structured_data' = r.claim_after
          /\ index_exists' = r.index_exists
          /\ IF r.raised
             THEN Return("policy_failed",
                         PyDict(("error" :> PyStr("Policy evaluation failed"))
                             @@ ("details" :> PyStr(r.exc))
                             @@ ("partial_result" :> r.claim_after)))
             ELSE Return("enriched", r.val)
    /\ UNCHANGED <<ocr_result_json, ocr_text, built, handed, struct_reply>>
    /\ UNCHANGED <<stageVars, otherVars>>

Next ==
    \/ \E outcome \in OcrOutcomes : Extract(outcome)
    \/ \E reply \in WorkflowReplies : Structure(reply)
    \/ \E e \in EvalEnvs(RaisePoints, WorkflowTexts) : Evaluate(e)

Spec == Init /\ [][Next]_vars

\* ------------------------------------------------------------------------
\* The two stage functions run on their own, on any reply
\* ------------------------------------------------------------------------
InitStage ==
    /\ OthersIdle
    /\ pc = "off"
    /\ ocr_result_json = <<>>
    /\ ocr_text = PyNone
    /\ built = PyNone
    /\ handed = PyNone
    /\ structured_data = PyNone
    /\ result = PyNone
    /\ exit = "none"
    /\ calls = <<>>
    /\ struct_reply = Answers(<<>>)
    /\ clock = 1
    /\ index_exists = TRUE
    /\ stage = "ready"
    /\ shape \in FencedShapes \cup BareShapes \cup ShortShapes
    /\ response = TextOf(shape)
    /\ claim_data \in StageClaims
    /\ env = NoEnv
    /\ ret = NoRet

\* structure_ocr_to_json(ocr_text, source_file) on the reply response
Build ==
    /\ stage = "ready"
    /\ stage' = "built"
    /\ \E r \in {structure_ocr_to_json(PyStr("claim text"), PyStr("crash1_front.jpeg"),
                                         Answers(response), Stamp(clock))} :
          ret' = [raised |-> r.raised, exc |-> r.exc, val |-> r.val,
                  claim_after |-> claim_data]
    /\ UNCHANGED <<shape, response, claim_data, env, index_exists>>
    /\ UNCHANGED <<workflowVars, otherVars>>

\* evaluate_policy_and_liability(claim_data) on the reply response
EvaluateStage(p) ==
    /\ stage = "ready"
    /\ stage' = "evaluated"
    /\ env' = [raise_at |-> p, text |-> response, version |-> PyStr("1")]
    /\ \E r \in {evaluate_policy_and_liability(claim_data, env', Stamp(clock), index_exists)} :
          /\ ret' = [raised |-> r.raised, exc |-> r.exc, val |-> r.val,
                     claim_after |-> r.claim_after]
          /\ index_exists' = r.index_exists
    /\ UNCHANGED <<shape, response, claim_data>>
    /\ UNCHANGED <<workflowVars, otherVars>>

NextStage ==
    \/ Build
    \/ \E p \in {"none", "responses", "close"} : EvaluateStage(p)

SpecStage == InitStage /\ [][NextStage]_vars

\* ------------------------------------------------------------------------
\* policy_evaluation_agent.py: ensure_ai_search_index_asset called by
\* several callers at once against one project
\* ------------------------------------------------------------------------
MaxCallers == 2

Callers == 1..MaxCallers

\* (AI_SEARCH_INDEX_ASSET_NAME, AI_SEARCH_INDEX_VERSION) a caller is configured with
IndexKeys == {[name |-> "policies", version |-> "1"], [name |-> "policies", version |-> "2"]}

\* the id the project service gives an asset; it may leave the id empty
ServiceIds(key) == {"azureai://indexes/" \o key.name \o "/versions/" \o key.version, ""}

\* f"{name}/versions/{version}"
FallbackId(key) == key.name \o "/versions/" \o key.version

\* existing_index.id or f"{name}/versions/{version}"
AssetIdOf(asset, key) == IF asset.id # "" THEN asset.id ELSE FallbackId(key)

\* the assets registered under the name and version of key
Registered(store, key) == {a \in store : a.name = key.name /\ a.version = key.version}

\* a get call that finds no asset, whatever is registered
indexes_get_nothing(store, key) ==
    [exc |-> "ResourceNotFoundError", asset |-> [name |-> "", version |-> "", id |-> "", writes |-> 0]]

\* project_client.indexes.get(name, version): the asset, or ResourceNotFoundError
indexes_get(store, key) ==
    IF Registered(store, key) = {}
    THEN [exc |-> "ResourceNotFoundError", asset |-> [name |-> "", version |-> "", id |-> "", writes |-> 0]]
    ELSE [exc |-> "", asset |-> TheOne(Registered(store, key))]

\* a create call that refuses a name and version already registered
indexes_create(store, key, id) ==
    IF Registered(store, key) # {}
    THEN [exc |-> "ResourceExistsError", store |-> store,
          asset |-> [name |-> "", version |-> "", id |-> "", writes |-> 0]]
    ELSE LET new == [name |-> key.name, version |-> key.version, id |-> id, writes |-> 1]
         IN [exc |-> "", store |-> store \cup {new}, asset |-> new]

\* project_client.indexes.create_or_update(name, version, index): registers
\* the asset, or rewrites the definition of the one already registered
indexes_create_or_update(store, key, id) ==
    IF Registered(store, key) = {}
    THEN LET new == [name |-> key.name, version |-> key.version, id |-> id, writes |-> 1]
         IN [exc |-> "", store |-> store \cup {new}, asset |-> new]
    ELSE LET old == TheOne(Registered(store, key))
             new == [old EXCEPT !.writes = old.writes + 1]
         IN [exc |-> "", store |-> (store \ {old}) \cup {new}, asset |-> new]

\* the stores a project can be in: at most one asset per name and version
InitialStores ==
    {UNION {f[k] : k \in IndexKeys} :
        f \in {g \in [IndexKeys -> SUBSET [name : {"policies"}, version : {"1", "2"},
                                            id : UNION {ServiceIds(k) : k \in IndexKeys},
                                            writes : {1}]] :
                  \A k \in IndexKeys :
                     /\ Cardinality(g[k]) <= 1
                     /\ \A a \in g[k] : /\ a.name = k.name /\ a.version = k.version
                                         /\ a.id \in ServiceIds(k)}}

InitEnsure ==
    /\ azure_ai_connection_id \in BOOLEAN
    /\ callers \in [Callers -> {[pc |-> "call", key |-> k, observed |-> "", asset_id |-> "", exc |-> "",
                                  creates |-> 0, after |-> {}] :
                                    k \in IndexKeys}]
    /\ indexes \in InitialStores
    /\ PipelineIdle
    /\ BatchIdle
    /\ CliIdle

\* the calls that were over when a call starts
Finished == {d \in Callers : callers[d].pc \in {"returned", "raised"}}

\* lines 191-215: the configuration check and indexes.get.  after records
\* the calls that were over before this one started, creates the number of
\* create_or_update calls this one made.
EnsureGet(c) ==
    /\ callers[c].pc = "call"
    /\ IF ~azure_ai_connection_id
       THEN callers' = [callers EXCEPT ![c].pc = "raised", ![c].exc = "RuntimeError",
                                       ![c].after = Finished]
       ELSE \E r \in {indexes_get(indexes, callers[c].key)} :
               IF r.exc = ""
               THEN callers' = [callers EXCEPT ![c].pc = "returned", ![c].observed = "found",
                                               ![c].asset_id = AssetIdOf(r.asset, callers[c].key),
                                               ![c].after = Finished]
               ELSE callers' = [callers EXCEPT ![c].pc = "create", ![c].observed = "not_found",
                                               ![c].after = Finished]
    /\ UNCHANGED <<azure_ai_connection_id, indexes>>
    /\ UNCHANGED <<workflowVars, stageVars, index_exists, batchVars, cliVars>>

\* lines 217-243: indexes.create_or_update after ResourceNotFoundError
EnsureCreate(c) ==
    /\ callers[c].pc = "create"
    /\ \E id \in ServiceIds(callers[c].key) :
          \E r \in {indexes_create_or_update(indexes, callers[c].key, id)} :
             /\ indexes' = r.store
             /\ IF r.exc = ""
                THEN callers' = [callers EXCEPT ![c].pc = "returned",
                                                ![c].creates = @ + 1,
                                                ![c].asset_id = AssetIdOf(r.asset, callers[c].key)]
                ELSE callers' = [callers EXCEPT ![c].pc = "raised", ![c].creates = @ + 1,
                                                ![c].exc = r.exc]
    /\ UNCHANGED azure_ai_connection_id
    /\ UNCHANGED <<workflowVars, stageVars, index_exists, batchVars, cliVars>>

NextEnsure ==
    \/ \E c \in Callers : EnsureGet(c)
    \/ \E c \in Callers : EnsureCreate(c)

SpecEnsure == InitEnsure /\ [][NextEnsure]_vars

\* ------------------------------------------------------------------------
\* gpt_statement_processing.py: grouping of the container listing and the
\* batch run over the grouped claims. A blob name is a sequence of lexemes
\* (tokens, the underscore, extensions); a token of a split name is the
\* sequence of lexemes between two underscores.
\* ------------------------------------------------------------------------
MaxBlobs == 4

BlobName(claim, side, ext) == <<claim, "_", side, ext>>

\* the names a container may hold
BlobNames ==
    {BlobName("crash1", "front", ".jpeg"), BlobName("crash1", "back", ".jpeg"),
     BlobName("crash1", "front", ".jpg"),
     BlobName("crash2", "front", ".jpeg"), BlobName("crash2", "back", ".jpg"),
     BlobName("crash1", "FRONT", ".jpeg"), BlobName("crash1", "Back", ".jpg"),
     BlobName("crash1", "left", ".jpeg"), BlobName("crash1", "front", ".png"),
     <<"readme", ".jpg">>}

\* a listing: blob names are unique within a container
Listings ==
    {q \in SeqsUpTo(BlobNames, MaxBlobs) : \A i, j \in 1..Len(q) : i # j => q[i] # q[j]}

\* str.replace(old, ""): every occurrence of the lexeme is removed
Replace(name, old) == SelectSeq(name, LAMBDA x : x # old)

\* str.split(sep): the tokens between the separators, at least one
RECURSIVE Split(_, _)
Split(name, sep) ==
    IF \A i \in 1..Len(name) : name[i] # sep THEN <<name>>
    ELSE LET i == CHOOSE x \in 1..Len(name) :
                     name[x] = sep /\ \A y \in 1..(x - 1) : name[y] # sep
         IN <<SubSeq(name, 1, i - 1)>> \o Split(SubSeq(name, i + 1, Len(name)), sep)

\* one pass of the loop that forgets the sides entered before
GroupOneReplaces(claims, name) ==
    LET name_parts == Split(Replace(Replace(name, ".jpeg"), ".jpg"), "_")
    IN IF Len(name_parts) >= 2
       THEN [order |-> IF name_parts[1] \in DOMAIN claims.m THEN claims.order
                       ELSE Append(claims.order, name_parts[1]),
             m |-> Put(claims.m, name_parts[1], Put(EmptyMap, name_parts[2], name))]
       ELSE claims

\* one pass of the loop that keeps the artifact entered first for a side
GroupOneKeepsFirst(claims, name) ==
    LET name_parts == Split(Replace(Replace(name, ".jpeg"), ".jpg"), "_")
    IN IF Len(name_parts) >= 2
       THEN LET images == IF name_parts[1] \in DOMAIN claims.m
                          THEN claims.m[name_parts[1]] ELSE EmptyMap
            IN [order |-> IF name_parts[1] \in DOMAIN claims.m THEN claims.order
                          ELSE Append(claims.order, name_parts[1]),
                m |-> Put(claims.m, name_parts[1], SetDefault(images, name_parts[2], name))]
       ELSE claims

\* lines 93-97: one pass of the loop of group_claims_by_number
GroupOne(claims, name) ==
    LET name_parts == Split(Replace(Replace(name, ".jpeg"), ".jpg"), "_")
    IN IF Len(name_parts) >= 2
       THEN LET claim_number == name_parts[1]
                side == name_parts[2]
                images == IF claim_number \in DOMAIN claims.m
                          THEN claims.m[claim_number] ELSE EmptyMap
            IN [order |-> IF claim_number \in DOMAIN claims.m THEN claims.order
                          ELSE Append(claims.order, claim_number),
                m |-> Put(claims.m, claim_number, Put(images, side, name))]
       ELSE claims

RECURSIVE GroupFrom(_, _, _)
GroupFrom(names, i, claims) ==
    IF i > Len(names) THEN claims
    ELSE TheOne({GroupFrom(names, i + 1, c) : c \in {GroupOne(claims, names[i])}})

\* the mapping claim_number -> side -> blob name, and the order in which
\* the claims were entered (the iteration order of the dict)
group_claims_by_number(names) == GroupFrom(names, 1, NoClaims)

\* what the vision collaborator does with one request
VisionOutcomes ==
    {Answers(<<"w">>), Answers(<<>>), Raises("APIConnectionError")}

\* what the storage and vision collaborators do while one claim is processed
ClaimOutcomes ==
    {[download |-> "ResourceNotFoundError", vision |-> Answers(<<>>)]}
        \cup {[download |-> "", vision |-> v] : v \in VisionOutcomes}

\* ocr_using_gpt4(front_image_path, back_image_path): the content of the
\* first choice, or the exception of the completion call
ocr_using_gpt4(front_image_path, back_image_path, vision) ==
    IF vision.raises
    THEN [raised |-> TRUE, exc |-> vision.exc, val |-> PyNone]
    ELSE [raised |-> FALSE, exc |-> "", val |-> PyText(vision.text)]

\* 'front' in images
HasFront(images) == <<"front">> \in DOMAIN images

\* 'front' in images and 'back' in images
HasFrontAndBack(images) ==
    <<"front">> \in DOMAIN images /\ <<"back">> \in DOMAIN images

InitBatch ==
    /\ blob_list \in Listings
    /\ grouped_claims = NoClaims
    /\ gpt4_results = EmptyMap
    /\ ocr_calls = <<>>
    /\ saved = PyNone
    /\ batch = [pc |-> "start", next |-> 1, exc |-> ""]
    /\ PipelineIdle
    /\ EnsureIdle
    /\ CliIdle

\* lines 107-111: the listing is read and grouped
ListAndGroup(listed) ==
    /\ batch.pc = "start"
    /\ IF listed
       THEN /\ grouped_claims' = group_claims_by_number(blob_list)
            /\ batch' = [batch EXCEPT !.pc = "loop"]
       ELSE /\ batch' = [batch EXCEPT !.pc = "raised", !.exc = "ServiceRequestError"]
            /\ UNCHANGED grouped_claims
    /\ UNCHANGED <<blob_list, gpt4_results, ocr_calls, saved>>
    /\ UNCHANGED <<workflowVars, stageVars, index_exists, ensureVars, cliVars>>

\* lines 114-140: one pass of the loop over grouped_claims.items()
ProcessClaim(outcome) ==
    /\ batch.pc = "loop"
    /\ batch.next <= Len(grouped_claims.order)
    /\ LET claim_number == grouped_claims.order[batch.next]
           images == grouped_claims.m[claim_number]
       IN IF ~HasFrontAndBack(images)
          THEN /\ batch' = [batch EXCEPT !.next = @ + 1]
               /\ UNCHANGED <<gpt4_results, ocr_calls>>
          ELSE IF <<"front">> \notin DOMAIN images \/ <<"back">> \notin DOMAIN images
          THEN /\ batch' = [batch EXCEPT !.pc = "raised", !.exc = "KeyError"]
               /\ UNCHANGED <<gpt4_results, ocr_calls>>
          ELSE IF outcome.download # ""
          THEN /\ batch' = [batch EXCEPT !.pc = "raised", !.exc = outcome.download]
               /\ UNCHANGED <<gpt4_results, ocr_calls>>
          ELSE \E r \in {ocr_using_gpt4(<<"/tmp/">> \o images[<<"front">>],
                                         <<"/tmp/">> \o images[<<"back">>], outcome.vision)} :
                  /\ ocr_calls' = Append(ocr_calls,
                                         [claim_number |-> claim_number,
                                          front |-> images[<<"front">>],
                                          back |-> images[<<"back">>],
                                          vision |-> outcome.vision, ret |-> r])
                  /\ IF r.raised
                     THEN /\ batch' = [batch EXCEPT !.pc = "raised", !.exc = r.exc]
                          /\ UNCHANGED gpt4_results
                     ELSE /\ gpt4_results' = Put(gpt4_results, claim_number, r.val)
                          /\ batch' = [batch EXCEPT !.next = @ + 1]
    /\ UNCHANGED <<blob_list, grouped_claims, saved>>
    /\ UNCHANGED <<workflowVars, stageVars, index_exists, ensureVars, cliVars>>

\* lines 142-151: the results are written and returned
SaveResults ==
    /\ batch.pc = "loop"
    /\ batch.next > Len(grouped_claims.order)
    /\ saved' = PyDict(gpt4_results)
    /\ batch' = [batch EXCEPT !.pc = "returned"]
    /\ UNCHANGED <<blob_list, grouped_claims, gpt4_results, ocr_calls>>
    /\ UNCHANGED <<workflowVars, stageVars, index_exists, ensureVars, cliVars>>

NextBatch ==
    \/ \E listed \in BOOLEAN : ListAndGroup(listed)
    \/ \E outcome \in ClaimOutcomes : ProcessClaim(outcome)
    \/ SaveResults

SpecBatch == InitBatch /\ [][NextBatch]_vars

\* ------------------------------------------------------------------------
\* The command-line entry points: main of
\* statements_data_extraction_agent.py, of policy_evaluation_agent.py and
\* of workflow_orchestrator.py. The exit status is 1 after sys.exit(1) or an
\* exception that leaves main, and 0 when main returns.
\* ------------------------------------------------------------------------
\* what the input file may hold
FileContents ==
    {EncodeValue(PyDict(("status" :> PyStr("success")) @@ ("text" :> PyStr("claim text")))),
     EncodeValue(PyDict(("status" :> PyStr("error")) @@ ("text" :> PyStr(""))
                     @@ ("error" :> PyStr("vision service unavailable")))),
     EncodeValue(SampleObject),
     <<"w">>}

CliScenarios ==
    [has_arg : BOOLEAN, file_exists : BOOLEAN, configured : BOOLEAN,
     content : FileContents, reply : WorkflowReplies, ocr : OcrOutcomes]

Exited(program, status, output_file, output) ==
    [state |-> "exited", program |-> program, status |-> status,
     output_file |-> output_file, output |-> output]

\* the reasoning collaborator as a run with this environment sees it:
\* without AI_FOUNDRY_PROJECT_ENDPOINT the project client cannot be made
ReplyIn(c) == IF c.configured THEN c.reply ELSE Raises("ValueError")

\* statements_data_extraction_agent.py main (lines 298-457)
structuring_main(c) ==
    LET Returns == Exited("structuring", 0, "", PyNone)
        ocr_json == json_loads(c.content)
        ocr_data == ocr_json.val
        is_ocr_json == /\ ocr_json.ok /\ IsDict(ocr_data)
                       /\ "text" \in DOMAIN ocr_data.m /\ "status" \in DOMAIN ocr_data.m
        reply == ReplyIn(c)
        response_text == StripFences(Strip(reply.text))
        parsed == json_loads(response_text)
    IN IF ~c.has_arg THEN Returns
       ELSE IF ~c.file_exists THEN Returns
       \* AIProjectClient, create_version: an exception is printed (lines 452-457)
       ELSE IF reply.raises THEN Returns
       ELSE IF is_ocr_json /\ ocr_data.m["status"] # PyStr("success") THEN Returns
       \* the reply does not parse: printed (lines 448-450)
       ELSE IF ~parsed.ok THEN Returns
       \* result["metadata"] = ... on a value that is not a dict: TypeError, printed
       ELSE IF ~IsDict(parsed.val) THEN Returns
       ELSE Exited("structuring", 0, "_structured.json",
                   PyDict(Put(parsed.val.m, "metadata",
                       PyDict(("source_file" :> (IF is_ocr_json
                                                 THEN Get(ocr_data, "file_path", PyStr("input_file"))
                                                 ELSE PyStr("input_file")))
                           @@ ("processing_timestamp" :> Stamp(clock))
                           @@ ("agent_model" :> model_deployment_name)
                           @@ ("original_text_length" :>
                                  PyNum(IF is_ocr_json THEN py_len(ocr_data.m["text"]).val
                                        ELSE Len(c.content)))))))

\* policy_evaluation_agent.py main (lines 416-454)
evaluation_main(c) ==
    LET Fails == Exited("evaluation", 1, "", PyNone)
        loaded == json_loads(c.content)
        reply == ReplyIn(c)
        e == [raise_at |-> IF ~c.configured THEN "endpoint"
                           ELSE IF reply.raises THEN "responses" ELSE "none",
              text |-> reply.text, version |-> PyStr("1")]
    IN IF ~c.has_arg THEN Fails
       \* load_claim_json: FileNotFoundError or JSONDecodeError (lines 430-435)
       ELSE IF ~c.file_exists \/ ~loaded.ok THEN Fails
       ELSE IF ~IsDict(loaded.val) THEN Fails
       ELSE TheOne({IF r.raised THEN Fails
                    ELSE Exited("evaluation", 0, "_with_policy_evaluation.json", r.val) :
                    r \in {evaluate_policy_and_liability(loaded.val, e, Stamp(clock), index_exists)}})

\* process_claim_workflow as main of workflow_orchestrator.py sees it:
\* the value it returns, or the exception that leaves it
WorkflowRun(c) ==
    LET Raised(exc) == [raised |-> TRUE, exc |-> exc, val |-> PyNone]
        Returned(v) == [raised |-> FALSE, exc |-> "", val |-> v]
        parsed == json_loads(c.ocr.text)
        ocr_result == parsed.val
        text == Get(ocr_result, "text", PyStr(""))
        reply == ReplyIn(c)
        e == [raise_at |-> IF ~c.configured THEN "endpoint"
                           ELSE IF reply.raises THEN "responses" ELSE "none",
              text |-> reply.text, version |-> PyStr("1")]
    IN IF c.ocr.raises THEN Raised(c.ocr.exc)
       ELSE IF ~parsed.ok THEN Raised("JSONDecodeError")
       ELSE IF ~IsDict(ocr_result) THEN Raised("AttributeError")
       ELSE IF Get(ocr_result, "status", PyNone) = PyStr("error")
       THEN Returned(PyDict(("error" :> PyStr("OCR processing failed"))
                         @@ ("details" :> Get(ocr_result, "error", PyNone))
                         @@ ("image_path" :> image_path)))
       ELSE IF ~py_len(text).ok THEN Raised("TypeError")
       ELSE TheOne({
          IF r.raised THEN Raised(r.exc)
          ELSE IF ~IsDict(r.val)
          THEN Returned(PyDict(("error" :> PyStr("Invalid result from statements data extraction agent"))
                            @@ ("details" :> r.val)))
          ELSE LET found == Get(r.val, "metadata", PyDict(EmptyMap))
                   metadata == IF IsDict(found) THEN found.m ELSE EmptyMap
                   structured == PyDict(Put(r.val.m, "metadata",
                       PyDict(Put(Put(Put(metadata, "source_image", image_path),
                                      "ocr_characters", PyNum(py_len(text).val)),
                                  "workflow", PyStr("multi-agent")))))
               IN TheOne({
                     IF v.raised
                     THEN Returned(PyDict(("error" :> PyStr("Policy evaluation failed"))
                                       @@ ("details" :> PyStr(v.exc))
                                       @@ ("partial_result" :> v.claim_after)))
                     ELSE Returned(v.val) :
                     v \in {evaluate_policy_and_liability(structured, e, Stamp(clock), index_exists)}}) :
          r \in {process_ocr_result(c.ocr.text, reply, Stamp(clock))}})

\* workflow_orchestrator.py main (lines 120-139)
orchestrator_main(c) ==
    IF ~c.has_arg THEN Exited("orchestrator", 1, "", PyNone)
    ELSE IF ~c.file_exists THEN Exited("orchestrator", 1, "", PyNone)
    ELSE TheOne({IF r.raised THEN Exited("orchestrator", 1, "", PyNone)
                 ELSE Exited("orchestrator", 0, "", r.val) :
                 r \in {WorkflowRun(c)}})

InitCli ==
    /\ cli \in CliScenarios
    /\ proc = [NoProc EXCEPT !.state = "ready"]
    /\ PipelineIdle
    /\ EnsureIdle
    /\ BatchIdle

RunStructuringCli ==
    /\ proc.state = "ready"
    /\ proc' = structuring_main(cli)
    /\ UNCHANGED <<cli, workflowVars, stageVars, index_exists, ensureVars, batchVars>>

RunEvaluationCli ==
    /\ proc.state = "ready"
    /\ proc' = evaluation_main(cli)
    /\ UNCHANGED <<cli, workflowVars, stageVars, index_exists, ensureVars, batchVars>>

RunOrchestratorCli ==
    /\ proc.state = "ready"
    /\ proc' = orchestrator_main(cli)
    /\ UNCHANGED <<cli, workflowVars, stageVars, index_exists, ensureVars, batchVars>>

NextCli ==
    \/ RunStructuringCli
    \/ RunEvaluationCli
    \/ RunOrchestratorCli

SpecCli == InitCli /\ [][NextCli]_vars

\* ------------------------------------------------------------------------
\* Properties
\* ------------------------------------------------------------------------
Has(d, k) == k \in DOMAIN d.m

Called(f) == \E i \in 1..Len(calls) : calls[i] = f

\* the reply does not parse, also not after the fence removal
ParseFails(text) == ~json_loads(StripFences(Strip(text))).ok

\* the fields of record d other than metadata
WithoutMetadata(d) == [k \in (DOMAIN d.m) \ {"metadata"} |-> d.m[k]]

\* C1: whatever the three collaborators do, process_claim_workflow returns
\* a value and never raises, and the value is a record with
\* policy_evaluation, a record with error markers, or a failure envelope.
C1_WorkflowNeverRaises ==
    pc = "done" =>
        /\ exit # "exception"
        /\ IsDict(result)
        /\ (Has(result, "policy_evaluation") \/ Has(result, "error"))

\* C2: when the policy-evaluation stage raises, partial_result of the
\* failure envelope equals the record as it was after the structuring stage
\* (read either as the value process_ocr_result returned or as the record
\* at the end of step 2), metadata included.
C2_PartialResultPreserved ==
    exit = "policy_failed" => result.m["partial_result"] \in {built, handed}

\* the extraction outcome is a failure: a JSON object whose status is not
\* success, or that carries no text
ExtractionFailure ==
    LET parsed == json_loads(ocr_result_json)
    IN /\ Called("extract_text_with_ocr")
       /\ parsed.ok
       /\ IsDict(parsed.val)
       /\ \/ Get(parsed.val, "status", PyNone) # PyStr("success")
          \/ Get(parsed.val, "text", PyStr("")) = PyStr("")

\* C3: after a failed extraction the run ends in Failed(extraction) and
\* neither the structuring stage nor the policy-evaluation stage is run.
C3_ExtractionFailureStops ==
    ExtractionFailure =>
        /\ ~Called("structure_ocr_to_json")
        /\ ~Called("evaluate_policy_and_liability")
        /\ (pc = "done" => exit = "ocr_failed")

\* the reasoning collaborator raised during the structuring stage
StructuringRaised == Called("structure_ocr_to_json") /\ struct_reply.raises

\* C4: when the reasoning collaborator raises during the structuring stage
\* the run ends in a failure and the policy-evaluation stage is not run.
C4_StructuringFailureStops ==
    StructuringRaised =>
        /\ ~Called("evaluate_policy_and_liability")
        /\ (pc = "done" => exit \notin {"enriched", "policy_failed"})

\* the reasoning collaborator answered the structuring stage with text
\* that does not parse
StructuringMalformed ==
    /\ Called("structure_ocr_to_json")
    /\ ~struct_reply.raises
    /\ ParseFails(struct_reply.text)

\* C5: a malformed structuring reply does not fail the run: the fallback
\* record with its error field is carried into the policy evaluation, and
\* the record returned after a successful evaluation holds the error
\* markers and policy_evaluation.
C5_MalformedCarriedToEvaluation ==
    StructuringMalformed =>
        /\ pc \in {"structured", "done"}
        /\ Has(handed, "error")
        /\ (pc = "done" =>
               /\ Called("evaluate_policy_and_liability")
               /\ exit \in {"enriched", "policy_failed"})
        /\ (exit = "enriched" =>
               /\ Has(result, "error")
               /\ result.m["error"] = built.m["error"]
               /\ Has(result, "error_details")
               /\ Has(result, "policy_evaluation"))

C5_Witness ==
    /\ StructuringMalformed
    /\ exit = "enriched"
    /\ Has(result, "error")
    /\ Has(result, "policy_evaluation")

\* C6: for a reply that is not JSON, structure_ocr_to_json returns (never
\* raises) a record with error set and metadata.processing_timestamp present.
C6_BuilderFallback ==
    (stage = "built" /\ ParseFails(response)) =>
        /\ ~ret.raised
        /\ IsDict(ret.val)
        /\ Has(ret.val, "error")
        /\ Has(ret.val, "metadata")
        /\ Has(ret.val.m["metadata"], "processing_timestamp")

C6_Witness ==
    /\ stage = "built"
    /\ shape.form = "short"
    /\ ParseFails(response)
    /\ ~ret.raised
    /\ Has(ret.val, "error")

\* C7: for a reply that is not JSON, evaluate_policy_and_liability returns
\* (never raises) a record with error markers set and
\* metadata.processing_timestamp present, whatever the input record's
\* metadata is.
C7_EvaluatorFallback ==
    (stage = "evaluated" /\ env.raise_at = "none" /\ ParseFails(response)) =>
        /\ ~ret.raised
        /\ IsDict(ret.val)
        /\ Has(ret.val, "error")
        /\ Has(ret.val, "metadata")
        /\ Has(ret.val.m["metadata"], "processing_timestamp")

\* C8: a valid JSON object inside a markdown fence, with whitespace or prose
\* before the opening and after the closing fence, is recovered exactly by
\* the builder and by the evaluator.
C8_FenceRoundTrip ==
    shape.form = "fenced" =>
        /\ stage = "built" =>
              /\ IsDict(ret.val)
              /\ WithoutMetadata(ret.val) = WithoutMetadata(shape.v)
        /\ (stage = "evaluated" /\ env.raise_at = "none" /\ ~ret.raised) =>
              ret.val.m["policy_evaluation"] = shape.v

\* a reply that is a JSON object inside a fence tagged json, with nothing
\* but whitespace around the fence
JsonFencedReply ==
    /\ shape.form = "fenced"
    /\ shape.tag = <<"w">>
    /\ \A i \in 1..Len(shape.lead) : shape.lead[i] = " "
    /\ \A i \in 1..Len(shape.trail) : shape.trail[i] = " "

\* C9: for a valid JSON object inside a json fence the structuring stage
\* returns a record whose fields other than metadata are the object's, with
\* metadata attached and no error key added.
C9_FencedObjectStructured ==
    (stage = "built" /\ JsonFencedReply) =>
        /\ ~ret.raised
        /\ IsDict(ret.val)
        /\ WithoutMetadata(ret.val) = WithoutMetadata(shape.v)
        /\ Has(ret.val, "metadata")
        /\ Has(ret.val.m["metadata"], "processing_timestamp")
        /\ (Has(ret.val, "error") <=> Has(shape.v, "error"))

C9_Witness ==
    /\ stage = "built"
    /\ JsonFencedReply
    /\ Has(shape.v, "document_type")
    /\ Has(ret.val, "document_type")
    /\ ret.val.m["document_type"] = PyStr("statement_front")
    /\ ~Has(ret.val, "error")

\* The top-level fields of the claim schema
ClaimSchemaFields ==
    {"document_type", "extracted_text", "policyholder_information", "vehicle_information",
     "accident_information", "description_of_incident", "description_of_damages",
     "witness_information", "police_report", "signature", "confidence", "notes", "metadata"}

\* C10: every record that leaves structure_ocr_to_json contains every
\* top-level field of the claim schema.
C10_AllSchemaFieldsPresent ==
    stage = "built" => ClaimSchemaFields \subseteq DOMAIN ret.val.m

\* the metadata keys of record d (none when metadata is not a mapping)
MetadataOf(d) ==
    IF IsDict(d) /\ Has(d, "metadata") /\ IsDict(d.m["metadata"])
    THEN d.m["metadata"].m ELSE EmptyMap

\* every key of metadata mapping before is in after with the same value
Keeps(before, after) ==
    \A k \in DOMAIN before : k \in DOMAIN after /\ after[k] = before[k]

\* C11: metadata is append-only: every metadata key the structuring stage
\* set is present with the same value after the orchestrator's
\* augmentation, and every metadata key present before the policy-evaluation
\* stage is present with the same value after it, for every record the
\* stage can receive.
C11_MetadataAppendOnly ==
    /\ (pc \in {"structured", "done"} /\ IsDict(handed)) =>
           Keeps(MetadataOf(built), MetadataOf(handed))
    /\ exit = "enriched" => Keeps(MetadataOf(handed), MetadataOf(result))
    /\ (stage = "evaluated" /\ ~ret.raised) =>
           Keeps(MetadataOf(claim_data), MetadataOf(ret.val))

\* the reply was put together from a JSON object and parses
ComposedReplyParses == shape.form \in {"fenced", "bare"} /\ ~ParseFails(response)

\* C12: when the evaluation stage succeeds, the record it returns equals
\* its input on every top-level key other than policy_evaluation and
\* metadata, and policy_evaluation is exactly the object parsed from the
\* reply, passed through without correction even when it violates the
\* evaluation schema.
C12_EvaluateFrame ==
    (stage = "evaluated" /\ ~ret.raised /\ ~ParseFails(response)) =>
        /\ DOMAIN ret.val.m = DOMAIN claim_data.m \cup {"policy_evaluation", "metadata"}
        /\ \A k \in DOMAIN claim_data.m \ {"policy_evaluation", "metadata"} :
               ret.val.m[k] = claim_data.m[k]
        /\ ret.val.m["policy_evaluation"] = json_loads(StripFences(Strip(response))).val
        /\ ComposedReplyParses => ret.val.m["policy_evaluation"] = shape.v

C12_Witness ==
    /\ stage = "evaluated" /\ ~ret.raised /\ ComposedReplyParses
    /\ shape.form = "fenced"
    /\ shape.v = FaultSplitNot100
    /\ ret.val.m["policy_evaluation"] = FaultSplitNot100
    /\ Has(claim_data, "error") /\ Has(ret.val, "error")

\* the reply is valid JSON whose top-level value is not an object
WrongTopLevelShape(text) ==
    LET whole == json_loads(Strip(text))
    IN whole.ok /\ ~IsDict(whole.val)

\* C13: a reply that is valid JSON with the wrong top-level shape (an array,
\* a string, a number instead of an object) is recovered at both stages by
\* a fallback record with explicit error markers: the builder returns a
\* record with error set, and the evaluator never attaches the value as
\* policy_evaluation but attaches a fallback object and marks the record.
C13_WrongShapeRecovered ==
    WrongTopLevelShape(response) =>
        /\ stage = "built" => ~ret.raised /\ IsDict(ret.val) /\ Has(ret.val, "error")
        /\ (stage = "evaluated" /\ ~ret.raised) =>
               /\ IsDict(ret.val.m["policy_evaluation"])
               /\ ret.val.m["policy_evaluation"] # json_loads(Strip(response)).val
               /\ Has(ret.val, "error")

\* the callers that asked for the name and version of key
CallersOf(key) == {c \in Callers : callers[c].key = key}

\* C14: under every interleaving of concurrent calls of
\* ensure_ai_search_index_asset for the same name and version, also when
\* both see not-found before either creates, no caller raises, all callers
\* that returned hold the same asset id, and once a caller returned exactly
\* one asset is registered for that name and version.
C14_ConcurrentEnsure ==
    azure_ai_connection_id =>
        \A key \in IndexKeys :
            /\ \A c \in CallersOf(key) : callers[c].pc # "raised"
            /\ \A c, d \in CallersOf(key) :
                   (callers[c].pc = "returned" /\ callers[d].pc = "returned") =>
                       callers[c].asset_id = callers[d].asset_id
            /\ \A c \in CallersOf(key) :
                   callers[c].pc = "returned" => Cardinality(Registered(indexes, key)) = 1

C14_Witness ==
    /\ azure_ai_connection_id
    /\ \E c, d \in Callers :
          /\ c # d
          /\ callers[c].key = callers[d].key
          /\ callers[c].observed = "not_found" /\ callers[d].observed = "not_found"
          /\ callers[c].pc = "returned" /\ callers[d].pc = "returned"
          /\ callers[c].asset_id # ""

\* the listing has been grouped
Grouped == batch.pc \in {"loop", "returned"} \/ (batch.pc = "raised" /\ batch.exc # "ServiceRequestError")

\* group_claims_by_number has just returned
JustGrouped == batch.pc = "loop" /\ batch.next = 1

\* the listing with the entries at i and j exchanged. Every permutation of
\* a listing is a chain of such exchanges and every listing of Listings is
\* checked, so a mapping that no exchange changes is the same for every
\* permutation.
Exchanged(names, i, j) ==
    [k \in 1..Len(names) |-> IF k = i THEN names[j] ELSE IF k = j THEN names[i] ELSE names[k]]

\* claim token and side token of a blob name, when it has both
ClaimAndSide(name) ==
    LET name_parts == Split(Replace(Replace(name, ".jpeg"), ".jpg"), "_")
    IN IF Len(name_parts) >= 2 THEN <<name_parts[1], name_parts[2]>> ELSE <<>>

\* no two artifacts of the listing have the same claim token and side token
NoDuplicateSide(names) ==
    \A i, j \in 1..Len(names) :
        (i # j /\ ClaimAndSide(names[i]) # <<>>) => ClaimAndSide(names[i]) # ClaimAndSide(names[j])

\* C15 as stated: group_claims_by_number returns the same mapping for
\* every permutation of the listing (for every exchange of two entries).
C15_GroupingOrderIndependent ==
    JustGrouped =>
        \A i, j \in 1..Len(blob_list) :
            group_claims_by_number(Exchanged(blob_list, i, j)).m = grouped_claims.m

\* C15 amended: for a listing in which no two artifacts share claim token
\* and side token, group_claims_by_number returns the same mapping for
\* every permutation of the listing (for every exchange of two entries).
C15_OrderIndependentWithoutDuplicates ==
    (JustGrouped /\ NoDuplicateSide(blob_list)) =>
        \A i, j \in 1..Len(blob_list) :
            group_claims_by_number(Exchanged(blob_list, i, j)).m = grouped_claims.m

C15_Witness ==
    /\ Grouped /\ NoDuplicateSide(blob_list)
    /\ Len(blob_list) = 4
    /\ blob_list[1] = BlobName("crash2", "back", ".jpg")
    /\ blob_list[4] = BlobName("crash1", "front", ".jpeg")
    /\ DOMAIN grouped_claims.m = {<<"crash1">>, <<"crash2">>}
    /\ DOMAIN grouped_claims.m[<<"crash1">>] = {<<"front">>, <<"back">>}

\* the grouping holds a front and a back artifact for the claim
BothSides(claim) ==
    /\ claim \in DOMAIN grouped_claims.m
    /\ {<<"front">>, <<"back">>} \subseteq DOMAIN grouped_claims.m[claim]

ExtractedClaims == {ocr_calls[k].claim_number : k \in 1..Len(ocr_calls)}

\* C16: a claim is submitted to extraction only if the grouping holds both
\* a front and a back artifact for it, and then with exactly those two; a
\* claim with only one side is skipped: it is never passed to extraction,
\* gets no result, in memory or in the saved file, and does not stop the run.
C16_OnlyCompleteClaimsExtracted ==
    /\ \A k \in 1..Len(ocr_calls) :
           /\ BothSides(ocr_calls[k].claim_number)
           /\ ocr_calls[k].front = grouped_claims.m[ocr_calls[k].claim_number][<<"front">>]
           /\ ocr_calls[k].back = grouped_claims.m[ocr_calls[k].claim_number][<<"back">>]
    /\ \A claim \in DOMAIN grouped_claims.m :
           ~BothSides(claim) =>
               /\ claim \notin ExtractedClaims
               /\ claim \notin DOMAIN gpt4_results
               /\ IsDict(saved) => claim \notin DOMAIN saved.m
    /\ batch.exc # "KeyError"

C16_Witness ==
    /\ batch.pc = "returned"
    /\ grouped_claims.order = <<<<"crash2">>, <<"crash1">>>>
    /\ DOMAIN grouped_claims.m[<<"crash2">>] = {<<"front">>}
    /\ BothSides(<<"crash1">>)
    /\ ExtractedClaims = {<<"crash1">>}
    /\ DOMAIN saved.m = {<<"crash1">>}

\* str.lower() of a token
LowerToken(token) ==
    [k \in 1..Len(token) |->
        CASE token[k] = "FRONT" -> "front"
          [] token[k] = "Back" -> "back"
          [] OTHER -> token[k]]

InListing(name) == \E i \in 1..Len(blob_list) : blob_list[i] = name

\* C17: the side token is matched without regard to case: an artifact whose
\* side token lower-cases to front or back is entered under the side key
\* front or back, so crash1_FRONT.jpeg and crash1_Back.jpg make a complete
\* claim that is submitted to extraction and gets a result.
C17_SideTokenCaseInsensitive ==
    /\ Grouped =>
           \A i \in 1..Len(blob_list) :
               LET parts == ClaimAndSide(blob_list[i])
               IN (parts # <<>> /\ LowerToken(parts[2]) \in {<<"front">>, <<"back">>}) =>
                      /\ parts[1] \in DOMAIN grouped_claims.m
                      /\ LowerToken(parts[2]) \in DOMAIN grouped_claims.m[parts[1]]
    /\ (batch.pc = "returned" /\ InListing(BlobName("crash1", "FRONT", ".jpeg"))
           /\ InListing(BlobName("crash1", "Back", ".jpg"))) =>
           <<"crash1">> \in DOMAIN gpt4_results

\* C18: every entry of the mapping group_claims_by_number returns has the
\* side key front or back and comes from an artifact whose extension is jpg
\* or jpeg; crash1_left.jpeg and crash1_front.png create no claim and no
\* side entry.
C18_OnlyFrontBackJpegEntries ==
    Grouped =>
        \A claim \in DOMAIN grouped_claims.m :
            \A side \in DOMAIN grouped_claims.m[claim] :
                /\ side \in {<<"front">>, <<"back">>}
                /\ grouped_claims.m[claim][side][Len(grouped_claims.m[claim][side])]
                       \in {".jpg", ".jpeg"}
                /\ grouped_claims.m[claim][side] \notin
                       {BlobName("crash1", "left", ".jpeg"), BlobName("crash1", "front", ".png")}

\* C20: when the vision collaborator fails with a transport or service
\* error, the extraction step returns an outcome (a failure with a detail)
\* to its caller and does not raise: ocr_using_gpt4 returns a value and the
\* batch run is not left by that exception.
C20_ExtractionNeverRaises ==
    \A k \in 1..Len(ocr_calls) :
        ocr_calls[k].vision.raises =>
            /\ ~ocr_calls[k].ret.raised
            /\ ocr_calls[k].ret.val # PyNone
            /\ batch.pc # "raised"

\* the input file named on the command line is missing
InputMissing == ~cli.has_arg \/ ~cli.file_exists

\* the run needs nothing the scenario lacks: the input is there and
\* readable, the configuration is set and the collaborators answer
PlainRun ==
    /\ ~InputMissing /\ cli.configured
    /\ ~cli.reply.raises /\ ~cli.ocr.raises
    /\ proc.program = "evaluation" => json_loads(cli.content).ok
    /\ proc.program = "orchestrator" => ~WorkflowRun(cli).raised

\* C19: each per-stage CLI (structuring, policy evaluation, orchestrator)
\* exits with a non-zero status when its input file is missing or required
\* configuration is absent, and with status zero otherwise, also when its
\* output is a fallback record.
C19_CliExitStatus ==
    proc.state = "exited" =>
        /\ (InputMissing \/ ~cli.configured) => proc.status # 0
        /\ PlainRun => proc.status = 0

\* the calls of the three stages, in the order they were made
StageCalls ==
    SelectSeq(calls, LAMBDA f : f \in {"extract_text_with_ocr", "process_ocr_result",
                                        "evaluate_policy_and_liability"})

StageOrder == <<"extract_text_with_ocr", "process_ocr_result", "evaluate_policy_and_liability">>

\* C21: within one run of process_claim_workflow the extraction call, the
\* structuring call and the policy-evaluation call each happen at most
\* once and only in that order, and no stage is invoked a second time after
\* a stage failed (no internal retry): the calls made are always a prefix
\* of extraction, structuring, evaluation, and structure_ocr_to_json runs at
\* most once, inside the structuring call.
C21_StagesOnceInOrder ==
    /\ Len(StageCalls) <= 3
    /\ StageCalls = SubSeq(StageOrder, 1, Len(StageCalls))
    /\ Len(SelectSeq(calls, LAMBDA f : f = "structure_ocr_to_json")) <= 1
    /\ Called("structure_ocr_to_json") => Called("process_ocr_result")
    /\ pc = "start" => calls = <<>>
    /\ pc = "extracted" => Len(StageCalls) = 1
    /\ pc = "structured" => Len(StageCalls) = 2

\* a stage failed (the evaluation raised) and the run ended with every
\* stage called once
C21_Witness ==
    /\ pc = "done" /\ exit = "policy_failed"
    /\ StageCalls = StageOrder

\* the policy_evaluation object attached to the record the stage returned
PolicyEvaluationOf(record) == record.m["policy_evaluation"]

\* C22: when the reply of the evaluation agent cannot be parsed, the
\* policy_evaluation attached to the returned record is the fixed conservative
\* fallback: coverage_applicability and at_fault_party are unclear,
\* is_claim_valid is null, confidence is low, every amount and percentage is
\* the number 0, every boolean is false, and the raw response is the text the
\* agent returned.
C22_EvaluatorFallbackValues ==
    (stage = "evaluated" /\ ~ret.raised /\ ParseFails(response)) =>
        \E pe \in {PolicyEvaluationOf(ret.val)} :
            /\ pe.m["coverage_assessment"].m["coverage_applicability"] = PyStr("unclear")
            /\ pe.m["liability_assessment"].m["at_fault_party"] = PyStr("unclear")
            /\ pe.m["claim_validity"].m["is_claim_valid"] = PyNone
            /\ pe.m["claim_validity"].m["confidence"] = PyStr("low")
            /\ pe.m["matched_policy"].m["score"] = PyNum(0)
            /\ pe.m["coverage_assessment"].m["estimated_company_liability_amount"] = PyNum(0)
            /\ pe.m["coverage_assessment"].m["deductible_amount"] = PyNum(0)
            /\ pe.m["liability_assessment"].m["estimated_fault_split"].m["policyholder_percent"] = PyNum(0)
            /\ pe.m["liability_assessment"].m["estimated_fault_split"].m["third_party_percent"] = PyNum(0)
            /\ pe.m["coverage_assessment"].m["deductible_applicable"] = PyBool("false")
            /\ pe.m["coverage_assessment"].m["limits_may_be_exceeded"] = PyBool("false")
            /\ pe.m["_raw_response"] = PyText(response)

\* the same fallback, its raw response left aside
EvaluatorFallbackFixedValues ==
    (stage = "evaluated" /\ ~ret.raised /\ ParseFails(response)) =>
        [PolicyEvaluationOf(ret.val).m EXCEPT !["_raw_response"] = PyNone]
            = [FallbackPolicyEval(<<>>).m EXCEPT !["_raw_response"] = PyNone]

\* C23: when the reply of the structuring agent cannot be parsed, the record
\* the builder returns has error and error_details populated, metadata
\* attached, and a raw_response equal, character for character, to the reply
\* the agent returned, also when that reply was fenced, padded with
\* whitespace, or empty.
C23_BuilderRawResponseVerbatim ==
    (stage = "built" /\ ParseFails(response)) =>
        /\ ~ret.raised
        /\ Has(ret.val, "error") /\ Truthy(ret.val.m["error"])
        /\ Has(ret.val, "error_details") /\ Truthy(ret.val.m["error_details"])
        /\ Has(ret.val, "metadata") /\ IsDict(ret.val.m["metadata"])
        /\ Has(ret.val, "raw_response")
        /\ ret.val.m["raw_response"] = PyText(response)

\* the same record, its raw response left aside
BuilderFallbackMarked ==
    (stage = "built" /\ ParseFails(response)) =>
        /\ ~ret.raised
        /\ Has(ret.val, "error") /\ Truthy(ret.val.m["error"])
        /\ Has(ret.val, "error_details") /\ Truthy(ret.val.m["error_details"])
        /\ Has(ret.val, "metadata") /\ IsDict(ret.val.m["metadata"])
        /\ Has(ret.val, "raw_response")

\* prose around a JSON object, without any fence marker
ProseWrapsObject ==
    /\ shape.form = "bare"
    /\ IsDict(shape.v)
    /\ \E i \in 1..Len(shape.lead \o shape.trail) : (shape.lead \o shape.trail)[i] = "w"

\* C24: the fences are stripped only from a reply whose trimmed text begins
\* with a fence marker. Any other reply reaches the parser whole: when it is
\* not JSON as a whole, the builder returns its fallback record with the
\* whole trimmed reply as raw_response and the evaluator attaches its fallback
\* object; in particular a reply without fence markers in which prose wraps
\* a valid JSON object is not cut down to the object, and the object is not
\* what the stage returns.
C24_NoSliceWithoutLeadingFence ==
    /\ ProseWrapsObject =>
          ~StartsWithFence(Strip(response)) /\ ~json_loads(Strip(response)).ok
    /\ (~StartsWithFence(Strip(response)) /\ ~json_loads(Strip(response)).ok) =>
          /\ stage = "built" =>
                /\ ~ret.raised
                /\ ret.val.m["error"] = PyStr("JSON parsing failed")
                /\ ret.val.m["raw_response"] =
                       (IF Strip(response) # <<>> THEN PyText(Strip(response))
                        ELSE PyStr("No response"))
                /\ DOMAIN ret.val.m = {"error", "error_details", "raw_response", "metadata"}
          /\ (stage = "evaluated" /\ ~ret.raised) =>
                /\ PolicyEvaluationOf(ret.val) = FallbackPolicyEval(Strip(response))
                /\ PolicyEvaluationOf(ret.val) # shape.v

C24_Witness ==
    /\ stage = "built"
    /\ ProseWrapsObject
    /\ shape.lead = <<"w">> /\ shape.trail = <<>>
    /\ Has(shape.v, "document_type")
    /\ ~ret.raised
    /\ ret.val.m["error"] = PyStr("JSON parsing failed")
    /\ ~Has(ret.val, "document_type")

\* the time at which the evaluation stage of a finished run was called
EvaluationTime == Stamp(clock - 1)

\* C25: after a successful policy-evaluation stage the metadata of the
\* record holds the provenance of that stage: the name and version of the
\* evaluation agent, the id of the index asset, and a timestamp taken by the
\* evaluation stage, and every metadata key written by an earlier stage
\* keeps its value.
C25_EvaluationProvenance ==
    exit = "enriched" =>
        \E md \in {result.m["metadata"].m} :
            /\ "policy_evaluation_agent" \in DOMAIN md
            /\ DOMAIN md["policy_evaluation_agent"].m
                   = {"name", "version", "ai_search_index_asset_id"}
            /\ \A k \in DOMAIN handed.m["metadata"].m : md[k] = handed.m["metadata"].m[k]
            /\ \/ \E k \in DOMAIN md : md[k] = EvaluationTime
               \/ \E k \in DOMAIN md["policy_evaluation_agent"].m :
                      md["policy_evaluation_agent"].m[k] = EvaluationTime

\* the same provenance, the timestamp left aside
EvaluationAgentRecorded ==
    exit = "enriched" =>
        \E md \in {result.m["metadata"].m} :
            /\ "policy_evaluation_agent" \in DOMAIN md
            /\ md["policy_evaluation_agent"].m["name"] = PyStr("PolicyEvaluationAgent")
            /\ DOMAIN md["policy_evaluation_agent"].m
                   = {"name", "version", "ai_search_index_asset_id"}
            /\ \A k \in DOMAIN handed.m["metadata"].m : md[k] = handed.m["metadata"].m[k]

\* C26: ensure_ai_search_index_asset is a get-or-create keyed by name and
\* version. A call that finds the asset returns the id of that asset and
\* makes no create call; a call that does not find it makes exactly one
\* create call and returns the id of the asset registered under the key; a
\* call made after another call for the same key returned returns the same
\* id and creates nothing.
C26_EnsureIdempotent ==
    \A c \in Callers :
        callers[c].pc = "returned" =>
            /\ callers[c].observed = "found" => callers[c].creates = 0
            /\ callers[c].observed = "not_found" => callers[c].creates = 1
            /\ \E a \in Registered(indexes, callers[c].key) :
                   callers[c].asset_id = AssetIdOf(a, callers[c].key)
            /\ \A d \in callers[c].after :
                   (callers[d].pc = "returned" /\ callers[d].key = callers[c].key) =>
                       /\ callers[c].asset_id = callers[d].asset_id
                       /\ callers[c].observed = "found"
                       /\ callers[c].creates = 0

C26_Witness ==
    /\ callers[1].pc = "returned" /\ callers[2].pc = "returned"
    /\ callers[1].key = callers[2].key
    /\ callers[1].observed = "not_found" /\ callers[1].creates = 1
    /\ callers[2].after = {1}
    /\ callers[2].observed = "found" /\ callers[2].creates = 0
    /\ callers[2].asset_id = callers[1].asset_id

\* the place of the last artifact of the listing with the claim token and
\* side token cs
LastOf(names, cs) ==
    CHOOSE i \in 1..Len(names) :
        /\ ClaimAndSide(names[i]) = cs
        /\ \A j \in (i + 1)..Len(names) : ClaimAndSide(names[j]) # cs

\* C27: when several artifacts of the listing have the same claim token and
\* the same side token, group_claims_by_number keeps for that side the
\* artifact that comes last in the listing and none of the earlier ones.
C27_LastDuplicateWins ==
    Grouped =>
        \A i \in 1..Len(blob_list) :
            ClaimAndSide(blob_list[i]) # <<>> =>
                \E cs \in {ClaimAndSide(blob_list[i])} :
                    /\ cs[1] \in DOMAIN grouped_claims.m
                    /\ cs[2] \in DOMAIN grouped_claims.m[cs[1]]
                    /\ grouped_claims.m[cs[1]][cs[2]] = blob_list[LastOf(blob_list, cs)]

C27_Witness ==
    /\ Grouped
    /\ Len(blob_list) = 3
    /\ blob_list[1] = BlobName("crash1", "front", ".jpeg")
    /\ blob_list[2] = BlobName("crash1", "back", ".jpeg")
    /\ blob_list[3] = BlobName("crash1", "front", ".jpg")
    /\ grouped_claims.m[<<"crash1">>][<<"front">>] = BlobName("crash1", "front", ".jpg")
    /\ grouped_claims.m[<<"crash1">>][<<"back">>] = BlobName("crash1", "back", ".jpeg")

\* the claim whose download or extraction raised
FailedClaim == grouped_claims.order[batch.next]

\* C30: in process_statements_with_gpt4 a download or extraction failure
\* for one claim does not affect the other claims: every other claim with a
\* front and a back artifact is still extracted, and the results of all the
\* claims extracted successfully are written to the output file.
C30_FailureIsolated ==
    (Grouped /\ batch.pc = "raised") =>
        /\ \A claim \in DOMAIN grouped_claims.m :
               (BothSides(claim) /\ claim # FailedClaim) => claim \in ExtractedClaims
        /\ IsDict(saved)
        /\ \A claim \in DOMAIN gpt4_results :
               claim \in DOMAIN saved.m /\ saved.m[claim] = gpt4_results[claim]

\* what the run does instead: the first failure ends it, nothing is written
FirstFailureEndsRun ==
    (Grouped /\ batch.pc = "raised") =>
        /\ saved = PyNone
        /\ \A k \in (batch.next + 1)..Len(grouped_claims.order) :
               grouped_claims.order[k] \notin ExtractedClaims

\* the input file holds an OCR result that reports a failure
OcrFailedInput ==
    \E ocr_json \in {json_loads(cli.content)} :
        /\ ocr_json.ok /\ IsDict(ocr_json.val)
        /\ Has(ocr_json.val, "text") /\ Has(ocr_json.val, "status")
        /\ ocr_json.val.m["status"] # PyStr("success")

\* a stage CLI ran to its end on a readable input: the input is there, the
\* configuration is set and the reasoning collaborator answered
StageCliCompleted ==
    /\ proc.state = "exited"
    /\ ~InputMissing /\ cli.configured /\ ~cli.reply.raises
    /\ \/ proc.program = "structuring" /\ ~OcrFailedInput
       \/ /\ proc.program = "evaluation"
          /\ json_loads(cli.content).ok /\ IsDict(json_loads(cli.content).val)

SiblingSuffix ==
    IF proc.program = "structuring" THEN "_structured.json" ELSE "_with_policy_evaluation.json"

\* C28: each stage CLI that runs to completion on a readable input writes
\* its sibling output file, suffixed _structured for the structuring stage
\* and _with_policy_evaluation for the evaluation stage, also when the reply
\* of the model was malformed and a fallback record was produced.
C28_StageCliWritesOutput ==
    StageCliCompleted => proc.output_file = SiblingSuffix /\ IsDict(proc.output)

\* the evaluation CLI alone does so
EvaluationCliWritesOutput ==
    (StageCliCompleted /\ proc.program = "evaluation") =>
        proc.output_file = SiblingSuffix /\ IsDict(proc.output)

\* C29: evaluate_policy_and_liability does not modify the record passed to
\* it: whether it returns or raises, the caller's record, the contents of
\* its nested metadata mapping included, is equal to what it was before the
\* call.
C29_EvaluateLeavesInputAlone ==
    stage = "evaluated" => ret.claim_after = claim_data

\* the top-level keys of the caller's record are left alone, and so is a
\* record without a metadata mapping to share
EvaluateKeepsTopLevelKeys ==
    stage = "evaluated" =>
        /\ DOMAIN ret.claim_after.m = DOMAIN claim_data.m
        /\ \A k \in DOMAIN claim_data.m \ {"metadata"} : ret.claim_after.m[k] = claim_data.m[k]
        /\ ~Truthy(Get(claim_data, "metadata", PyNone)) => ret.claim_after = claim_data

====
